---- MODULE Spec2Model ----
(***************************************************************************)
(* Request / response data models of docling-serve                         *)
(* (docling_serve/datamodel/requests.py, responses.py).                    *)
(*                                                                         *)
(* Every model is a pydantic BaseModel: constructing it from a raw payload *)
(* (a dict: a function from the field names that are present to values)    *)
(* parses each field, fills the defaults of the omitted ones and, for      *)
(* ConvertDocumentsRequest, runs the after-validator                       *)
(* validate_s3_source_and_target.  A construction yields either the object *)
(* or a validation failure carrying the list of reported errors.           *)
(***************************************************************************)
EXTENDS Integers, Sequences, FiniteSets, TLC

VARIABLES eng_kind, pc, model, payload, out, dumped, reparsed

vars == <<eng_kind, pc, model, payload, out, dumped, reparsed>>

(***************************************************************************)
(* Bounds                                                                  *)
(***************************************************************************)
MaxSources == 3

(***************************************************************************)
(* Values                                                                  *)
(***************************************************************************)
None == [t |-> "null"]

Success(v) == [ok |-> TRUE, value |-> v, errors |-> <<>>]

Failure(errs) == [ok |-> FALSE, value |-> None, errors |-> errs]

Error(type, msg) == [type |-> type, msg |-> msg]

NoError == Error("", "")

JInt(n) == [t |-> "int", i |-> n]

JStr(x) == [t |-> "str", s |-> x]

JBool(b) == [t |-> "bool", b |-> b]

JDict(d) == [t |-> "dict", d |-> d]

JList(l) == [t |-> "list", l |-> l]

\* Marks a field the payload does not carry.
Omitted == [t |-> "omitted"]

Range(s) == {s[i] : i \in 1..Len(s)}

SeqsUpTo(S, n) == UNION {[1..k -> S] : k \in 0..n}

Dict(D, all) == [f \in D |-> all[f]]

(***************************************************************************)
(* Settings: the configured engine kind                                    *)
(***************************************************************************)
KFP == "kfp"

AsyncEngine == {"local", KFP}

(***************************************************************************)
(* Sources and targets: tagged unions discriminated by "kind"              *)
(***************************************************************************)
SourceKinds == {"file", "http", "s3"}

SourceClass(kind) ==
    CASE kind = "file" -> "FileSourceRequest"
      [] kind = "http" -> "HttpSourceRequest"
      [] kind = "s3" -> "S3SourceRequest"

TargetKinds == {"inbody", "zip", "s3"}

TargetClass(kind) ==
    CASE kind = "inbody" -> "InBodyTarget"
      [] kind = "zip" -> "ZipTarget"
      [] kind = "s3" -> "S3Target"

InBodyTarget == [cls |-> "InBodyTarget", kind |-> "inbody"]

DefaultOptions == "ConvertDocumentsRequestOptions()"

\* SourceRequestItem: the discriminator picks the variant; an unknown tag
\* is a parse error of that list element.
SourceRequestItem(raw) ==
    IF raw.kind \in SourceKinds
    THEN Success([cls |-> SourceClass(raw.kind), kind |-> raw.kind, ref |-> raw.ref])
    ELSE Failure(<<Error("union_tag_invalid", "sources")>>)

TaskTarget(raw) ==
    IF raw.kind \in TargetKinds
    THEN Success([cls |-> TargetClass(raw.kind), kind |-> raw.kind])
    ELSE Failure(<<Error("union_tag_invalid", "target")>>)

RECURSIVE ParseSources(_)
ParseSources(raws) ==
    IF raws = <<>> THEN Success(<<>>)
    ELSE LET h == SourceRequestItem(Head(raws))
             t == ParseSources(Tail(raws))
         IN  IF h.ok /\ t.ok
             THEN Success(<<h.value>> \o t.value)
             ELSE Failure(h.errors \o t.errors)

\* Field parsing of ConvertDocumentsRequest: defaults for the omitted
\* fields, one error per offending field.
ConvertFields(raw) ==
    LET srcs == IF "sources" \in DOMAIN raw
                THEN ParseSources(raw["sources"])
                ELSE Failure(<<Error("missing", "sources")>>)
        tgt  == IF "target" \in DOMAIN raw
                THEN TaskTarget(raw["target"])
                ELSE Success(InBodyTarget)
        opts == IF "options" \in DOMAIN raw
                THEN raw["options"]
                ELSE DefaultOptions
    IN  IF srcs.ok /\ tgt.ok
        THEN Success([cls |-> "ConvertDocumentsRequest", options |-> opts,
                      sources |-> srcs.value, target |-> tgt.value])
        ELSE Failure(srcs.errors \o tgt.errors)

(***************************************************************************)
(* ConvertDocumentsRequest.validate_s3_source_and_target                   *)
(***************************************************************************)
ErrSourceEngine == Error("error source", "source kind \"s3\" requires engine kind \"KFP\"")

ErrSourceTarget == Error("error source", "source kind \"s3\" requires target kind \"s3\"")

ErrTargetSource == Error("error target", "target kind \"s3\" requires source kind \"s3\"")

\* Variant: the target check made before the engine check.
check_source_target_first(source, self, eng) ==
    IF source.cls = "S3SourceRequest"
    THEN IF self.target.kind # "s3" THEN ErrSourceTarget
         ELSE IF eng # KFP THEN ErrSourceEngine
         ELSE NoError
    ELSE NoError

\* Variant: only an in-body target is refused for an S3 source.
check_source_zip_allowed(source, self, eng) ==
    IF source.cls = "S3SourceRequest"
    THEN IF eng # KFP THEN ErrSourceEngine
         ELSE IF self.target.kind = "inbody" THEN ErrSourceTarget
         ELSE NoError
    ELSE NoError

\* Variant: the engine check made for every source, S3 or not.
check_source_any_kind(source, self, eng) ==
    IF eng # KFP THEN ErrSourceEngine
    ELSE IF source.cls = "S3SourceRequest" /\ self.target.kind # "s3" THEN ErrSourceTarget
    ELSE NoError

\* Body of the first loop, for one source: the error it raises, or NoError.
check_source(source, self, eng) ==
    IF source.cls = "S3SourceRequest"
    THEN IF eng # KFP THEN ErrSourceEngine
         ELSE IF self.target.kind # "s3" THEN ErrSourceTarget
         ELSE NoError
    ELSE NoError

\* The first loop: the sources in order, stopping at the first raise.
RECURSIVE source_loop(_, _, _)
source_loop(sources, self, eng) ==
    IF sources = <<>> THEN NoError
    ELSE LET e == check_source(Head(sources), self, eng)
         IN  IF e # NoError THEN e ELSE source_loop(Tail(sources), self, eng)

\* Variant: the second loop gives up at the first source that is not S3.
RECURSIVE target_loop_all(_)
target_loop_all(sources) ==
    IF sources = <<>> THEN FALSE
    ELSE IF Head(sources).cls # "S3SourceRequest" THEN FALSE
    ELSE IF Tail(sources) = <<>> THEN TRUE
    ELSE target_loop_all(Tail(sources))

\* The second loop: TRUE iff it returns self at some S3 source.
RECURSIVE target_loop(_)
target_loop(sources) ==
    IF sources = <<>> THEN FALSE
    ELSE IF Head(sources).cls = "S3SourceRequest" THEN TRUE
    ELSE target_loop(Tail(sources))

\* Variant: the S3-target check left out.
validate_without_target_rule(self, eng) ==
    LET e == source_loop(self.sources, self, eng)
    IN  IF e # NoError THEN Failure(<<e>>) ELSE Success(self)

\* Variant: every violated rule collected into the failure.
validate_batching(self, eng) ==
    LET s3 == \E i \in 1..Len(self.sources) : self.sources[i].cls = "S3SourceRequest"
        e1 == IF s3 /\ eng # KFP THEN <<ErrSourceEngine>> ELSE <<>>
        e2 == IF s3 /\ self.target.kind # "s3" THEN <<ErrSourceTarget>> ELSE <<>>
        e3 == IF ~s3 /\ self.target.cls = "S3Target" THEN <<ErrTargetSource>> ELSE <<>>
    IN  IF e1 \o e2 \o e3 = <<>> THEN Success(self) ELSE Failure(e1 \o e2 \o e3)

validate_s3_source_and_target(self, eng) ==
    LET e == source_loop(self.sources, self, eng)
    IN  IF e # NoError THEN Failure(<<e>>)
        ELSE IF self.target.cls = "S3Target"
             THEN IF target_loop(self.sources) THEN Success(self)
                  ELSE Failure(<<ErrTargetSource>>)
             ELSE Success(self)

\* ConvertDocumentsRequest(**raw): field parsing, then the after-validator.
ConvertDocumentsRequest(raw, eng) ==
    LET fields == ConvertFields(raw)
    IN  IF fields.ok THEN validate_s3_source_and_target(fields.value, eng)
        ELSE fields

\* model_dump(): every field, defaults included; a tagged object becomes a
\* dict carrying its kind.
dump_source(s) == [kind |-> s.kind, ref |-> s.ref]

\* Variant: the target dumped with the default kind of the field.
dump_target_default_kind(t) == [kind |-> InBodyTarget.kind]

dump_target(t) == [kind |-> t.kind]

model_dump(self) ==
    [options |-> self.options,
     sources |-> [i \in 1..Len(self.sources) |-> dump_source(self.sources[i])],
     target |-> dump_target(self.target)]


(***************************************************************************)
(* Field parsing shared by the plain models                                *)
(***************************************************************************)
\* A payload from one choice per field, the omitted fields left out.
PayloadOf(choice) == [f \in {g \in DOMAIN choice : choice[g] # Omitted} |-> choice[f]]

\* The errors of a field are reported under the field's name.
At(name, r) ==
    IF r.ok THEN r
    ELSE Failure([i \in 1..Len(r.errors) |-> Error(r.errors[i].type, name)])

\* The value a payload carries for a field, Omitted when it carries none.
Get(raw, name) == IF name \in DOMAIN raw THEN raw[name] ELSE Omitted

\* A field with a default: the parse result r of the value when the field
\* is present, else the default.
Field(raw, name, r, default) ==
    IF name \in DOMAIN raw THEN At(name, r) ELSE Success(default)

\* A required field (Field(...) or no default at all).
Required(raw, name, r) ==
    IF name \in DOMAIN raw THEN At(name, r)
    ELSE Failure(<<Error("missing", name)>>)

int(v) == IF v.t = "int" THEN Success(v) ELSE Failure(<<Error("int_parsing", "")>>)

bool(v) == IF v.t = "bool" THEN Success(v) ELSE Failure(<<Error("bool_parsing", "")>>)

str(v) == IF v.t = "str" THEN Success(v) ELSE Failure(<<Error("string_type", "")>>)

OptionalInt(v) == IF v = None THEN Success(None) ELSE int(v)

OptionalBool(v) == IF v = None THEN Success(None) ELSE bool(v)

OptionalStr(v) == IF v = None THEN Success(None) ELSE str(v)

\* The value of a field that parsed, for building the object.
AllOk(rs) == \A i \in 1..Len(rs) : rs[i].ok

RECURSIVE Errors(_)
Errors(rs) == IF rs = <<>> THEN <<>> ELSE Head(rs).errors \o Errors(Tail(rs))

(***************************************************************************)
(* Chunking models                                                         *)
(***************************************************************************)
HYBRID == "hybrid"

HIERARCHICAL == "hierarchical"

ChunkingMethod(v) ==
    IF v.t = "str" /\ v.s \in {HYBRID, HIERARCHICAL} THEN Success(v)
    ELSE Failure(<<Error("enum", "")>>)

max_tokens_default == 512

images_scale_default == 2

\* Variant: max_tokens declared Optional with no default value of its own.
ChunkingRequest_max_tokens_none(raw) ==
    LET method == Field(raw, "method", ChunkingMethod(Get(raw, "method")), JStr(HYBRID))
        merge_list_items ==
            Field(raw, "merge_list_items", OptionalBool(Get(raw, "merge_list_items")), JBool(TRUE))
        merge_peers ==
            Field(raw, "merge_peers", OptionalBool(Get(raw, "merge_peers")), JBool(TRUE))
        max_tokens == Field(raw, "max_tokens", OptionalInt(Get(raw, "max_tokens")), None)
        all == <<method, merge_list_items, merge_peers, max_tokens>>
    IN  IF AllOk(all)
        THEN Success([cls |-> "ChunkingRequest",
                      method |-> method.value,
                      merge_list_items |-> merge_list_items.value,
                      merge_peers |-> merge_peers.value,
                      max_tokens |-> max_tokens.value])
        ELSE Failure(Errors(all))

ChunkingRequest(raw) ==
    LET method == Field(raw, "method", ChunkingMethod(Get(raw, "method")), JStr(HYBRID))
        merge_list_items ==
            Field(raw, "merge_list_items", OptionalBool(Get(raw, "merge_list_items")), JBool(TRUE))
        merge_peers ==
            Field(raw, "merge_peers", OptionalBool(Get(raw, "merge_peers")), JBool(TRUE))
        max_tokens ==
            Field(raw, "max_tokens", OptionalInt(Get(raw, "max_tokens")), JInt(max_tokens_default))
        all == <<method, merge_list_items, merge_peers, max_tokens>>
    IN  IF AllOk(all)
        THEN Success([cls |-> "ChunkingRequest",
                      method |-> method.value,
                      merge_list_items |-> merge_list_items.value,
                      merge_peers |-> merge_peers.value,
                      max_tokens |-> max_tokens.value])
        ELSE Failure(Errors(all))

Base64FileSource(v) ==
    IF v.t # "dict" THEN Failure(<<Error("model_type", "")>>)
    ELSE LET kind == Field(v.d, "kind", str(Get(v.d, "kind")), JStr("file"))
             base64_string == Required(v.d, "base64_string", str(Get(v.d, "base64_string")))
             filename == Required(v.d, "filename", str(Get(v.d, "filename")))
             all == <<kind, base64_string, filename>>
         IN  IF ~AllOk(all) THEN Failure(Errors(all))
             ELSE IF kind.value.s # "file" THEN Failure(<<Error("literal_error", "kind")>>)
             ELSE Success([cls |-> "Base64FileSource", kind |-> kind.value,
                           base64_string |-> base64_string.value,
                           filename |-> filename.value])

PictureDescriptionOptions(v) ==
    IF v.t # "dict" THEN Failure(<<Error("model_type", "")>>)
    ELSE LET enabled == Field(v.d, "enabled", bool(Get(v.d, "enabled")), JBool(FALSE))
             repo_id ==
                 Field(v.d, "repo_id", str(Get(v.d, "repo_id")), JStr("HuggingFaceTB/SmolVLM-256M-Instruct"))
             prompt == Field(v.d, "prompt", str(Get(v.d, "prompt")),
                 JStr("Describe this picture in three to five sentences. Be precise and concise."))
             images_scale ==
                 Field(v.d, "images_scale", int(Get(v.d, "images_scale")), JInt(images_scale_default))
             all == <<enabled, repo_id, prompt, images_scale>>
         IN  IF AllOk(all)
             THEN Success([cls |-> "PictureDescriptionOptions",
                           enabled |-> enabled.value, repo_id |-> repo_id.value,
                           prompt |-> prompt.value, images_scale |-> images_scale.value])
             ELSE Failure(Errors(all))

OptionalPictureDescriptionOptions(v) ==
    IF v = None THEN Success(None) ELSE PictureDescriptionOptions(v)

\* ocr_languages: Optional[list[str]]; the inputs here are null or a list
\* of strings.
OptionalStrList(v) ==
    IF v = None THEN Success(None)
    ELSE IF v.t = "list" /\ \A i \in 1..Len(v.l) : v.l[i].t = "str" THEN Success(v)
    ELSE Failure(<<Error("list_type", "")>>)

OcrOptions(v) ==
    IF v.t # "dict" THEN Failure(<<Error("model_type", "")>>)
    ELSE LET enabled == Field(v.d, "enabled", bool(Get(v.d, "enabled")), JBool(FALSE))
             ocr_languages ==
                 Field(v.d, "ocr_languages", OptionalStrList(Get(v.d, "ocr_languages")), None)
             dpi == Field(v.d, "dpi", OptionalInt(Get(v.d, "dpi")), None)
             all == <<enabled, ocr_languages, dpi>>
         IN  IF AllOk(all)
             THEN Success([cls |-> "OcrOptions", enabled |-> enabled.value,
                           ocr_languages |-> ocr_languages.value, dpi |-> dpi.value])
             ELSE Failure(Errors(all))

OptionalOcrOptions(v) == IF v = None THEN Success(None) ELSE OcrOptions(v)

\* sources: list[Base64FileSource]
Base64FileSourceList(v) ==
    IF v.t # "list" THEN Failure(<<Error("list_type", "")>>)
    ELSE LET items == [i \in 1..Len(v.l) |-> Base64FileSource(v.l[i])]
         IN  IF AllOk(items) THEN Success([i \in 1..Len(items) |-> items[i].value])
             ELSE Failure(Errors(items))

ChunkingSourceRequest(raw) ==
    LET sources == Required(raw, "sources", Base64FileSourceList(Get(raw, "sources")))
        method == Field(raw, "method", ChunkingMethod(Get(raw, "method")), JStr(HYBRID))
        merge_list_items ==
            Field(raw, "merge_list_items", OptionalBool(Get(raw, "merge_list_items")), JBool(TRUE))
        merge_peers ==
            Field(raw, "merge_peers", OptionalBool(Get(raw, "merge_peers")), JBool(TRUE))
        max_tokens ==
            Field(raw, "max_tokens", OptionalInt(Get(raw, "max_tokens")), JInt(max_tokens_default))
        picture_description ==
            Field(raw, "picture_description", OptionalPictureDescriptionOptions(Get(raw, "picture_description")), None)
        ocr == Field(raw, "ocr", OptionalOcrOptions(Get(raw, "ocr")), None)
        all == <<sources, method, merge_list_items, merge_peers, max_tokens,
                 picture_description, ocr>>
    IN  IF AllOk(all)
        THEN Success([cls |-> "ChunkingSourceRequest",
                      sources |-> sources.value,
                      method |-> method.value,
                      merge_list_items |-> merge_list_items.value,
                      merge_peers |-> merge_peers.value,
                      max_tokens |-> max_tokens.value,
                      picture_description |-> picture_description.value,
                      ocr |-> ocr.value])
        ELSE Failure(Errors(all))

(***************************************************************************)
(* Task status and the websocket envelope                                  *)
(***************************************************************************)
TaskStatusResponse(v) ==
    IF v.t # "dict" THEN Failure(<<Error("model_type", "")>>)
    ELSE LET task_id == Required(v.d, "task_id", str(Get(v.d, "task_id")))
             task_status == Required(v.d, "task_status", str(Get(v.d, "task_status")))
             task_position ==
                 Field(v.d, "task_position", OptionalInt(Get(v.d, "task_position")), None)
             all == <<task_id, task_status, task_position>>
         IN  IF AllOk(all)
             THEN Success([cls |-> "TaskStatusResponse", task_id |-> task_id.value,
                           task_status |-> task_status.value,
                           task_position |-> task_position.value,
                           task_meta |-> None])
             ELSE Failure(Errors(all))

OptionalTaskStatusResponse(v) == IF v = None THEN Success(None) ELSE TaskStatusResponse(v)

CONNECTION == "connection"

UPDATE == "update"

ERROR == "error"

MessageKind(v) ==
    IF v.t = "str" /\ v.s \in {CONNECTION, UPDATE, ERROR} THEN Success(v)
    ELSE Failure(<<Error("enum", "")>>)

WebsocketMessage(raw) ==
    LET message == Required(raw, "message", MessageKind(Get(raw, "message")))
        task == Field(raw, "task", OptionalTaskStatusResponse(Get(raw, "task")), None)
        error == Field(raw, "error", OptionalStr(Get(raw, "error")), None)
        all == <<message, task, error>>
    IN  IF AllOk(all)
        THEN Success([cls |-> "WebsocketMessage", message |-> message.value,
                      task |-> task.value, error |-> error.value])
        ELSE Failure(Errors(all))

(***************************************************************************)
(* Inputs                                                                  *)
(***************************************************************************)
RawSources == [kind : SourceKinds \cup {"ftp"}, ref : {"a", "b"}]

RawTargets == [kind : TargetKinds \cup {"ftp"}]

RawOptions == {"custom options"}

ConvertFieldNames == {"options", "sources", "target"}

RawMethods == {Omitted, JStr(HIERARCHICAL), JStr("semantic")}

RawMergeListItems == {Omitted, JBool(FALSE)}

RawMergePeers == {Omitted, None}

RawMaxTokens == {Omitted, JInt(-1), JInt(0), JInt(256), JStr("many")}

RawPictureDescriptions ==
    {Omitted, None, JDict([enabled |-> JBool(FALSE)]),
     JDict([images_scale |-> JInt(0)]),
     JDict([images_scale |-> JInt(-1)]),
     JDict([images_scale |-> JInt(1), enabled |-> JBool(TRUE)]),
     JDict([images_scale |-> JStr("big")])}

RawOcrs ==
    {Omitted, JDict([enabled |-> JBool(FALSE)]),
     JDict([enabled |-> JBool(TRUE), dpi |-> JInt(300), ocr_languages |-> JList(<<JStr("eng")>>)])}

RawFile == JDict([base64_string |-> JStr("QQ=="), filename |-> JStr("a.pdf")])

RawChunkingSources ==
    {Omitted, JList(<<>>), JList(<<RawFile>>),
     JList(<<RawFile, JDict([filename |-> JStr("b.pdf")])>>)}

RawMessages == {Omitted, JStr(CONNECTION), JStr(UPDATE), JStr(ERROR), JStr("ping")}

RawTask == JDict([task_id |-> JStr("t1"), task_status |-> JStr("started")])

RawTasks ==
    {Omitted, None, RawTask,
     JDict([task_id |-> JStr("t1"), task_status |-> JStr("pending"),
            task_position |-> JInt(1)]),
     JDict([task_id |-> JStr("t1")])}

RawErrors == {Omitted, None, JStr("boom")}

(***************************************************************************)
(* Actions                                                                 *)
(***************************************************************************)
Init ==
    /\ eng_kind \in AsyncEngine
    /\ pc = "idle"
    /\ model = "none"
    /\ payload = None
    /\ out = None
    /\ dumped = None
    /\ reparsed = None

\* A conversion request arrives and is constructed from its payload.
Convert ==
    /\ pc = "idle"
    /\ \E D \in SUBSET ConvertFieldNames, s \in SeqsUpTo(RawSources, MaxSources),
          t \in RawTargets, o \in RawOptions :
          LET raw == Dict(D, [sources |-> s, target |-> t, options |-> o])
          IN  /\ payload' = raw
              /\ out' = ConvertDocumentsRequest(raw, eng_kind)
    /\ model' = "ConvertDocumentsRequest"
    /\ pc' = "constructed"
    /\ UNCHANGED <<eng_kind, dumped, reparsed>>

\* A validated request is serialized.
Serialize ==
    /\ pc = "constructed"
    /\ model = "ConvertDocumentsRequest"
    /\ out.ok
    /\ dumped' = model_dump(out.value)
    /\ pc' = "dumped"
    /\ UNCHANGED <<eng_kind, model, payload, out, reparsed>>

\* The serialized form is parsed again under the same settings.
Reparse ==
    /\ pc = "dumped"
    /\ reparsed' = ConvertDocumentsRequest(dumped, eng_kind)
    /\ pc' = "reparsed"
    /\ UNCHANGED <<eng_kind, model, payload, out, dumped>>

\* A chunking request arrives as ChunkingRequest; fields the model does not
\* declare are ignored.
Chunk ==
    /\ pc = "idle"
    /\ \E m \in RawMethods, li \in RawMergeListItems, mp \in RawMergePeers,
          mt \in RawMaxTokens, pd \in {Omitted, None, JDict([enabled |-> JBool(TRUE)])} :
          LET raw == PayloadOf([method |-> m, merge_list_items |-> li, merge_peers |-> mp,
                                max_tokens |-> mt, picture_description |-> pd])
          IN  /\ payload' = raw
              /\ out' = ChunkingRequest(raw)
    /\ model' = "ChunkingRequest"
    /\ pc' = "constructed"
    /\ UNCHANGED <<eng_kind, dumped, reparsed>>

\* A chunking request with inline sources arrives as ChunkingSourceRequest.
ChunkSource ==
    /\ pc = "idle"
    /\ \E src \in RawChunkingSources, m \in RawMethods, li \in RawMergeListItems,
          mp \in RawMergePeers, mt \in RawMaxTokens, pd \in RawPictureDescriptions,
          o \in RawOcrs :
          LET raw == PayloadOf([sources |-> src, method |-> m, merge_list_items |-> li,
                                merge_peers |-> mp, max_tokens |-> mt,
                                picture_description |-> pd, ocr |-> o])
          IN  /\ payload' = raw
              /\ out' = ChunkingSourceRequest(raw)
    /\ model' = "ChunkingSourceRequest"
    /\ pc' = "constructed"
    /\ UNCHANGED <<eng_kind, dumped, reparsed>>

\* The surrounding system builds a message for a connection.
Notify ==
    /\ pc = "idle"
    /\ \E m \in RawMessages, tk \in RawTasks, e \in RawErrors :
          LET raw == PayloadOf([message |-> m, task |-> tk, error |-> e])
          IN  /\ payload' = raw
              /\ out' = WebsocketMessage(raw)
    /\ model' = "WebsocketMessage"
    /\ pc' = "constructed"
    /\ UNCHANGED <<eng_kind, dumped, reparsed>>

\* The invocation is over; the layer keeps no state between requests.
Return ==
    /\ pc # "idle"
    /\ pc' = "idle"
    /\ model' = "none"
    /\ payload' = None
    /\ out' = None
    /\ dumped' = None
    /\ reparsed' = None
    /\ UNCHANGED eng_kind

Next ==
    \/ Convert
    \/ Serialize
    \/ Reparse
    \/ Chunk
    \/ ChunkSource
    \/ Notify
    \/ Return

Spec == Init /\ [][Next]_vars

(***************************************************************************)
(* Properties of ConvertDocumentsRequest                                   *)
(***************************************************************************)
\* The request whose fields parsed, before the cross-field validator ran.
Converting == pc # "idle" /\ model = "ConvertDocumentsRequest"

Parsed == ConvertFields(payload)

WellFormed == Converting /\ Parsed.ok

Req == Parsed.value

HasS3Source(req) == \E i \in 1..Len(req.sources) : req.sources[i].kind = "s3"

TargetIsS3(req) == req.target.kind = "s3"

\* C1: a request with an S3 source anywhere in sources, under an engine
\* kind other than KFP, fails, and the one error reported is the
\* source/engine mismatch, whatever the target is.
C1_S3SourceNeedsKFP ==
    (WellFormed /\ HasS3Source(Req) /\ eng_kind # KFP)
        => (~out.ok /\ out.errors = <<ErrSourceEngine>>)

\* The S3 source comes after a file source and the target is not S3, so
\* the source/target rule is violated too.
C1_Witness ==
    /\ WellFormed /\ eng_kind # KFP
    /\ Len(Req.sources) >= 2
    /\ Req.sources[1].kind = "file"
    /\ Req.sources[2].kind = "s3"
    /\ Req.target.kind = "zip"
    /\ ~out.ok

\* C2: a request with an S3 source, under engine kind KFP, whose target
\* is not S3 (in-body, zip or the defaulted in-body) fails with the
\* source/target mismatch.
C2_S3SourceNeedsS3Target ==
    (WellFormed /\ HasS3Source(Req) /\ eng_kind = KFP /\ ~TargetIsS3(Req))
        => (~out.ok /\ out.errors = <<ErrSourceTarget>>)

C2_Witness ==
    /\ WellFormed /\ eng_kind = KFP
    /\ HasS3Source(Req)
    /\ Req.target.kind = "zip"
    /\ ~out.ok

\* C3: a request whose target is S3 and whose sources hold no S3 source
\* (the empty list included) fails with the target/source mismatch under
\* every engine kind.
C3_S3TargetNeedsS3Source ==
    (WellFormed /\ TargetIsS3(Req) /\ ~HasS3Source(Req))
        => (~out.ok /\ out.errors = <<ErrTargetSource>>)

C3_Witness ==
    /\ WellFormed /\ eng_kind # KFP
    /\ TargetIsS3(Req)
    /\ Req.sources = <<>>
    /\ ~out.ok

\* C4: a request with no S3 source and a target that is not S3 (an omitted
\* target resolves to in-body) validates under every engine kind.
C4_NoS3Succeeds ==
    (WellFormed /\ ~HasS3Source(Req) /\ ~TargetIsS3(Req))
        => (out.ok /\ ("target" \notin DOMAIN payload => out.value.target = InBodyTarget))

C4_Witness ==
    /\ WellFormed /\ eng_kind # KFP
    /\ "target" \notin DOMAIN payload
    /\ Len(Req.sources) = 1
    /\ Req.sources[1].kind = "file"
    /\ out.ok
    /\ out.value.target.kind = "inbody"

\* C5: validation succeeds, returning the request, exactly when (no S3
\* source and target not S3) or (some S3 source, target S3, engine KFP);
\* other sources around the S3 one do not matter.
C5_SuccessExactly ==
    WellFormed =>
        /\ out.ok <=> \/ ~HasS3Source(Req) /\ ~TargetIsS3(Req)
                      \/ HasS3Source(Req) /\ TargetIsS3(Req) /\ eng_kind = KFP
        /\ out.ok => out.value = Req

C5_Witness ==
    /\ WellFormed /\ eng_kind = KFP
    /\ TargetIsS3(Req)
    /\ Len(Req.sources) = 3
    /\ Req.sources[1].kind = "s3"
    /\ Req.sources[2].kind = "file"
    /\ Req.sources[3].kind = "http"
    /\ out.ok

\* The cross-field rules a request violates.
ViolatedRules(req, eng) ==
    {e \in {ErrSourceEngine, ErrSourceTarget, ErrTargetSource} :
        \/ e = ErrSourceEngine /\ HasS3Source(req) /\ eng # KFP
        \/ e = ErrSourceTarget /\ HasS3Source(req) /\ ~TargetIsS3(req)
        \/ e = ErrTargetSource /\ TargetIsS3(req) /\ ~HasS3Source(req)}

\* The first violated rule in the order engine, target, target-to-source.
FirstViolated(req, eng) ==
    IF ErrSourceEngine \in ViolatedRules(req, eng) THEN ErrSourceEngine
    ELSE IF ErrSourceTarget \in ViolatedRules(req, eng) THEN ErrSourceTarget
    ELSE ErrTargetSource

\* C6 as stated: a failed cross-field validation reports an entry for
\* every violated rule.
C6_EveryViolatedRuleReported ==
    (WellFormed /\ ~out.ok) => ViolatedRules(Req, eng_kind) \subseteq Range(out.errors)

\* C6 amended: a failed cross-field validation reports exactly one entry,
\* the first violated rule in the order engine, target, target-to-source.
C6_FirstViolatedRuleReported ==
    (WellFormed /\ ViolatedRules(Req, eng_kind) # {})
        => (~out.ok /\ out.errors = <<FirstViolated(Req, eng_kind)>>)

\* Two rules are violated at once.
C6_Witness ==
    /\ WellFormed /\ ~out.ok
    /\ Cardinality(ViolatedRules(Req, eng_kind)) = 2
    /\ Len(out.errors) = 1

Constructed(m) == pc # "idle" /\ model = m

\* C7: every accepted WebsocketMessage has exactly one of task and error
\* populated, matching its tag: an error message carries an error string
\* and no task, an update message carries a task and no error.
C7_EnvelopeInvariant ==
    (Constructed("WebsocketMessage") /\ out.ok) =>
        /\ (out.value.task = None) # (out.value.error = None)
        /\ out.value.message.s = ERROR =>
               (out.value.error # None /\ out.value.task = None)
        /\ out.value.message.s = UPDATE =>
               (out.value.task # None /\ out.value.error = None)

ChunkingOptionalFields ==
    {"method", "merge_list_items", "merge_peers", "max_tokens", "picture_description", "ocr"}

FourDefaults(obj) ==
    /\ obj.method = JStr(HYBRID)
    /\ obj.merge_list_items = JBool(TRUE)
    /\ obj.merge_peers = JBool(TRUE)
    /\ obj.max_tokens = JInt(512)

\* C8 as stated: a ChunkingRequest built with every optional field omitted
\* has the six fields method, merge_list_items, merge_peers, max_tokens,
\* picture_description and ocr, with the values Hybrid, true, true, 512,
\* None and None.
C8_ChunkingRequestSixDefaults ==
    (Constructed("ChunkingRequest") /\ DOMAIN payload \cap ChunkingOptionalFields = {}) =>
        /\ out.ok
        /\ ChunkingOptionalFields \subseteq DOMAIN out.value
        /\ FourDefaults(out.value)
        /\ out.value.picture_description = None
        /\ out.value.ocr = None

\* C8 amended: a ChunkingRequest built with every optional field omitted
\* has the four fields method, merge_list_items, merge_peers and max_tokens
\* only, with the values Hybrid, true, true and 512; the model that has
\* all six fields is ChunkingSourceRequest, which, built from its sources
\* alone, takes those four defaults and picture_description = None,
\* ocr = None.
C8_ChunkingDefaults ==
    /\ (Constructed("ChunkingRequest") /\ DOMAIN payload \cap ChunkingOptionalFields = {}) =>
        /\ out.ok
        /\ DOMAIN out.value =
               {"cls", "method", "merge_list_items", "merge_peers", "max_tokens"}
        /\ FourDefaults(out.value)
    /\ (Constructed("ChunkingSourceRequest") /\ DOMAIN payload = {"sources"} /\ out.ok) =>
        /\ DOMAIN out.value = {"cls", "sources"} \cup ChunkingOptionalFields
        /\ FourDefaults(out.value)
        /\ out.value.picture_description = None
        /\ out.value.ocr = None

C8_Witness ==
    /\ Constructed("ChunkingRequest")
    /\ DOMAIN payload = {}
    /\ out.ok
    /\ out.value.max_tokens = JInt(512)

\* max_tokens is present and is not a positive integer (null stands for
\* "no limit given" and is not counted).
BadMaxTokens(raw) ==
    /\ "max_tokens" \in DOMAIN raw
    /\ raw["max_tokens"] # None
    /\ (raw["max_tokens"].t = "int" => raw["max_tokens"].i <= 0)

\* picture_description carries an integer image scale factor below 1.
BadImagesScale(raw) ==
    /\ "picture_description" \in DOMAIN raw
    /\ raw["picture_description"].t = "dict"
    /\ "images_scale" \in DOMAIN raw["picture_description"].d
    /\ raw["picture_description"].d["images_scale"].t = "int"
    /\ raw["picture_description"].d["images_scale"].i < 1

\* C10: a chunking request whose image scale factor is an integer below 1,
\* or whose max_tokens is not a positive integer, is rejected when parsed.
C10_RangesEnforced ==
    /\ (Constructed("ChunkingSourceRequest")
            /\ (BadMaxTokens(payload) \/ BadImagesScale(payload))) => ~out.ok
    /\ (Constructed("ChunkingRequest") /\ BadMaxTokens(payload)) => ~out.ok

====
